---- MODULE Spec2Model ----
(***************************************************************************)
(* Model of the AD983x driver: the cached control register (Config), the   *)
(* chip-select framed serial write protocol and the device facade.         *)
(*                                                                         *)
(* Two handle types exist in the sources and both are modelled:            *)
(*   kind = "common" : Ad983x<DEV, CS, IC> of src/src/common.rs and        *)
(*                     src/src/ad9833_ad9837.rs (fallible select line,     *)
(*                     byte oriented bus)                                   *)
(*   kind = "lib"    : Ad983x<SpiInterface<SPI, CS>> of src/src/lib.rs     *)
(*                     (infallible select line, 16-bit word oriented bus,  *)
(*                     only reset / disable / enable)                      *)
(*                                                                         *)
(* The transport is an external collaborator: every call of it made by an  *)
(* operation may fail.  An operation takes a fault plan F, the set of the  *)
(* positions (1 = first transport call of this operation) that fail.       *)
(***************************************************************************)
EXTENDS Integers, Naturals, Sequences, FiniteSets, TLC

VARIABLES kind, control, cs, hw, last

vars == <<kind, control, cs, hw, last>>

(***************************************************************************)
(* Integer helpers: u16 / u32 bit operations                               *)
(***************************************************************************)
RECURSIVE Pow2(_)
Pow2(n) == IF n = 0 THEN 1 ELSE 2 * Pow2(n - 1)

RECURSIVE BitAnd(_, _)
BitAnd(a, b) ==
    IF a = 0 \/ b = 0 THEN 0
    ELSE (a % 2) * (b % 2) + 2 * BitAnd(a \div 2, b \div 2)

RECURSIVE BitOr(_, _)
BitOr(a, b) ==
    IF a = 0 THEN b
    ELSE IF b = 0 THEN a
    ELSE (IF (a % 2) + (b % 2) > 0 THEN 1 ELSE 0) + 2 * BitOr(a \div 2, b \div 2)

Not16(a)     == 65535 - a
Shr(a, n)    == a \div Pow2(n)
AsU16(a)     == a % 65536

(***************************************************************************)
(* BitFlags                                                                *)
(***************************************************************************)
D15        == 32768
D14        == 16384
D13        == 8192
B28        == 8192
HLB        == 4096
FSELECT    == 2048
PSELECT    == 1024
PIN_SW     == 512
RESET      == 256
SLEEP_MCLK == 128
SLEEP_DAC  == 64
OPBITEN    == 32
SIGN_PIB   == 16
DIV2       == 8
MODE       == 2
LibRESET   == 256

PayloadMask == 16383      \* 0b0011_1111_1111_1111
MsbMask     == 268419072  \* 0x0FFFC000
LsbMask     == 16383      \* 0x00003FFF

(***************************************************************************)
(* Config                                                                  *)
(***************************************************************************)
with_high(bits, mask) == BitOr(bits, mask)
with_low(bits, mask)  == BitAnd(bits, Not16(mask))

(***************************************************************************)
(* Closed enumerations consumed by the facade                              *)
(***************************************************************************)
FrequencyRegister == {"F0", "F1"}
PhaseRegister     == {"P0", "P1"}
PoweredDown       == {"Nothing", "Dac", "InternalClock", "DacAndInternalClock"}
OutputWaveform    == {"Sinusoidal", "Triangle", "SquareMsbOfDac", "SquareMsbOfDacDiv2"}

(***************************************************************************)
(* Transport (external collaborator).  A call in progress is a record      *)
(*   [control, cs, log, res]                                              *)
(* log is the sequence of transport calls made so far by the operation,    *)
(* res the Result of the last step, cs the level the select line was last  *)
(* driven to.                                                              *)
(***************************************************************************)
\* bits: width of one element of data (u8 bytes or u16 words), 0 for a pin call
Ev(call, data, bits, ok) == [call |-> call, data |-> data, bits |-> bits, ok |-> ok]

Fails(s, F) == (Len(s.log) + 1) \in F

cs_set_low(s, F) ==
    LET ok == ~Fails(s, F)
    IN  [s EXCEPT !.log = Append(@, Ev("set_low", <<>>, 0, ok)),
                  !.cs  = IF ok THEN "low" ELSE @,
                  !.res = IF ok THEN "Ok" ELSE "CSPinError"]

cs_set_high(s, F) ==
    LET ok == ~Fails(s, F)
    IN  [s EXCEPT !.log = Append(@, Ev("set_high", <<>>, 0, ok)),
                  !.cs  = IF ok THEN "high" ELSE @,
                  !.res = IF ok THEN "Ok" ELSE "CSPinError"]

spi_write(s, data, bits, F) ==
    LET ok == ~Fails(s, F)
    IN  [s EXCEPT !.log = Append(@, Ev("write", data, bits, ok)),
                  !.res = IF ok THEN "Ok" ELSE "Spi"]

(***************************************************************************)
(* Serial write protocol (common.rs)                                       *)
(***************************************************************************)
DataFormat == {"U32", "U16", "U8"}

RECURSIVE BeBytes(_, _)
BeBytes(data, n) ==
    IF n = 0 THEN <<>> ELSE Append(BeBytes(data \div 256, n - 1), data % 256)

to_be_bytes(payload) ==
    CASE payload.fmt = "U32" -> BeBytes(payload.data, 4)
      [] payload.fmt = "U16" -> BeBytes(payload.data, 2)
      [] payload.fmt = "U8"  -> BeBytes(payload.data, 1)

U16(data) == [fmt |-> "U16", data |-> data]

write(s, payload, F) ==
    LET s1 == cs_set_low(s, F)
    IN  IF s1.res # "Ok" THEN s1
        ELSE LET s2    == spi_write(s1, to_be_bytes(payload), 8, F)
                 error == s2.res
                 s3    == cs_set_high(s2, F)
             IN  IF s3.res # "Ok" THEN s3 ELSE [s3 EXCEPT !.res = error]

write_control(s, ctl, F) ==
    LET payload == BitAnd(ctl, PayloadMask)
        s1      == write(s, U16(payload), F)
    IN  IF s1.res # "Ok" THEN s1 ELSE [s1 EXCEPT !.control = ctl]

\* faulty variant: no suppression, the control word is always written
write_control_if_different_always(s, ctl, F) == write_control(s, ctl, F)

write_control_if_different(s, ctl, F) ==
    IF ctl # s.control THEN write_control(s, ctl, F) ELSE [s EXCEPT !.res = "Ok"]

\* faulty variant: the MSB word is transferred although the LSB transfer failed
write_data_no_abort(s, reg, payload, F) ==
    LET s1 == cs_set_low(s, F)
    IN  IF s1.res # "Ok" THEN s1
        ELSE LET msb == BitOr(reg, AsU16(Shr(BitAnd(payload, MsbMask), 14)))
                 lsb == BitOr(reg, AsU16(BitAnd(payload, LsbMask)))
                 s2  == spi_write(s1, BeBytes(lsb, 2), 8, F)
                 s3  == spi_write(s2, BeBytes(msb, 2), 8, F)
             IN  IF s2.res # "Ok" THEN [s3 EXCEPT !.res = s2.res]
                 ELSE IF s3.res # "Ok" THEN s3 ELSE cs_set_high(s3, F)

\* faulty variant: the MSB word is transferred before the LSB word
write_data_msb_first(s, reg, payload, F) ==
    LET s1 == cs_set_low(s, F)
    IN  IF s1.res # "Ok" THEN s1
        ELSE LET msb == BitOr(reg, AsU16(Shr(BitAnd(payload, MsbMask), 14)))
                 lsb == BitOr(reg, AsU16(BitAnd(payload, LsbMask)))
                 s2  == spi_write(s1, BeBytes(msb, 2), 8, F)
             IN  IF s2.res # "Ok" THEN s2
                 ELSE LET s3 == spi_write(s2, BeBytes(lsb, 2), 8, F)
                      IN  IF s3.res # "Ok" THEN s3 ELSE cs_set_high(s3, F)

write_data(s, reg, payload, F) ==
    LET s1 == cs_set_low(s, F)
    IN  IF s1.res # "Ok" THEN s1
        ELSE LET msb == BitOr(reg, AsU16(Shr(BitAnd(payload, MsbMask), 14)))
                 lsb == BitOr(reg, AsU16(BitAnd(payload, LsbMask)))
                 s2  == spi_write(s1, BeBytes(lsb, 2), 8, F)
             IN  IF s2.res # "Ok" THEN s2
                 ELSE LET s3 == spi_write(s2, BeBytes(msb, 2), 8, F)
                      IN  IF s3.res # "Ok" THEN s3 ELSE cs_set_high(s3, F)

(***************************************************************************)
(* write_control of lib.rs: the select line cannot fail, the bus carries   *)
(* one u16 word, and the cache is assigned whatever the bus returned.      *)
(***************************************************************************)
NoFault == {}

lib_write_control(s, ctl, F) ==
    LET s1      == cs_set_low(s, NoFault)
        payload == <<BitAnd(ctl, PayloadMask)>>
        s2      == spi_write(s1, payload, 16, F)
        result  == s2.res
        s3      == cs_set_high(s2, NoFault)
    IN  [s3 EXCEPT !.control = ctl, !.res = result]

(***************************************************************************)
(* Device facade (common.rs, ad9833_ad9837.rs)                             *)
(***************************************************************************)
\* faulty variant: the boundary value itself is accepted
check_value_fits_off_by_one(value, bit_count) ==
    IF value > Pow2(bit_count) THEN "InvalidArgument" ELSE "Ok"

check_value_fits(value, bit_count) ==
    IF value >= Pow2(bit_count) THEN "InvalidArgument" ELSE "Ok"

\* faulty variant: the two address tags exchanged
get_freq_register_bits_swapped(register) ==
    CASE register = "F0" -> D15
      [] register = "F1" -> D14

get_freq_register_bits(register) ==
    CASE register = "F0" -> D14
      [] register = "F1" -> D15

disable(s, F) == write_control(s, with_high(s.control, RESET), F)

\* faulty variant: reset skips the write when RESET is already cached
reset_if_different(s, F) ==
    write_control_if_different(s, with_high(s.control, RESET), F)

reset(s, F) == disable(s, F)

\* faulty variant: enable routed through the if-different path
enable_if_different(s, F) ==
    write_control_if_different(s, with_low(s.control, RESET), F)

enable(s, F) == write_control(s, with_low(s.control, RESET), F)

set_frequency(s, register, value, F) ==
    IF check_value_fits(value, 28) # "Ok"
    THEN [s EXCEPT !.res = "InvalidArgument"]
    ELSE LET ctl == with_high(s.control, B28)
             s1  == write_control_if_different(s, ctl, F)
         IN  IF s1.res # "Ok" THEN s1
             ELSE write_data(s1, get_freq_register_bits(register), value, F)

\* faulty variant: the half-word is not checked against its 14-bit width
set_frequency_msb_unchecked(s, register, value, F) ==
    LET ctl == with_high(with_low(s.control, B28), HLB)
        s1  == write_control_if_different(s, ctl, F)
    IN  IF s1.res # "Ok" THEN s1
        ELSE write(s1, U16(BitOr(get_freq_register_bits(register), value)), F)

set_frequency_msb(s, register, value, F) ==
    IF check_value_fits(value, 14) # "Ok"
    THEN [s EXCEPT !.res = "InvalidArgument"]
    ELSE LET ctl == with_high(with_low(s.control, B28), HLB)
             s1  == write_control_if_different(s, ctl, F)
         IN  IF s1.res # "Ok" THEN s1
             ELSE write(s1, U16(BitOr(get_freq_register_bits(register), value)), F)

\* faulty variant: the mode is written without comparing it with the cache
set_frequency_lsb_always(s, register, value, F) ==
    IF check_value_fits(value, 14) # "Ok"
    THEN [s EXCEPT !.res = "InvalidArgument"]
    ELSE LET ctl == with_low(with_low(s.control, B28), HLB)
             s1  == write_control(s, ctl, F)
         IN  IF s1.res # "Ok" THEN s1
             ELSE write(s1, U16(BitOr(get_freq_register_bits(register), value)), F)

set_frequency_lsb(s, register, value, F) ==
    IF check_value_fits(value, 14) # "Ok"
    THEN [s EXCEPT !.res = "InvalidArgument"]
    ELSE LET ctl == with_low(with_low(s.control, B28), HLB)
             s1  == write_control_if_different(s, ctl, F)
         IN  IF s1.res # "Ok" THEN s1
             ELSE write(s1, U16(BitOr(get_freq_register_bits(register), value)), F)

\* faulty variant: select_frequency routed through the if-different path
select_frequency_if_different(s, register, F) ==
    LET ctl == CASE register = "F0" -> with_low(s.control, FSELECT)
                 [] register = "F1" -> with_high(s.control, FSELECT)
    IN  write_control_if_different(s, ctl, F)

select_frequency(s, register, F) ==
    LET ctl == CASE register = "F0" -> with_low(s.control, FSELECT)
                 [] register = "F1" -> with_high(s.control, FSELECT)
    IN  write_control(s, ctl, F)

\* faulty variant: P1 loses its D13 address bit
set_phase_no_d13(s, register, value, F) ==
    IF check_value_fits(value, 12) # "Ok"
    THEN [s EXCEPT !.res = "InvalidArgument"]
    ELSE LET v1 == BitOr(BitOr(value, D14), D15)
         IN  write(s, U16(v1), F)

set_phase(s, register, value, F) ==
    IF check_value_fits(value, 12) # "Ok"
    THEN [s EXCEPT !.res = "InvalidArgument"]
    ELSE LET v1 == BitOr(BitOr(value, D14), D15)
             v2 == CASE register = "P0" -> v1
                     [] register = "P1" -> BitOr(v1, D13)
         IN  write(s, U16(v2), F)

\* faulty variant: the selection is recorded in PIN_SW
select_phase_pin_sw(s, register, F) ==
    LET ctl == CASE register = "P0" -> with_low(s.control, PIN_SW)
                 [] register = "P1" -> with_high(s.control, PIN_SW)
    IN  write_control(s, ctl, F)

select_phase(s, register, F) ==
    LET ctl == CASE register = "P0" -> with_low(s.control, PSELECT)
                 [] register = "P1" -> with_high(s.control, PSELECT)
    IN  write_control(s, ctl, F)

\* faulty variant: the SLEEP_DAC and SLEEP_MCLK arms exchanged
set_powered_down_swapped(s, config, F) ==
    LET c == s.control
        ctl == CASE config = "Nothing" ->
                      with_low(with_low(c, SLEEP_MCLK), SLEEP_DAC)
                 [] config = "Dac" ->
                      with_low(with_high(c, SLEEP_MCLK), SLEEP_DAC)
                 [] config = "InternalClock" ->
                      with_high(with_low(c, SLEEP_MCLK), SLEEP_DAC)
                 [] config = "DacAndInternalClock" ->
                      with_high(with_high(c, SLEEP_MCLK), SLEEP_DAC)
    IN  write_control(s, ctl, F)

set_powered_down(s, config, F) ==
    LET c == s.control
        ctl == CASE config = "Nothing" ->
                      with_low(with_low(c, SLEEP_MCLK), SLEEP_DAC)
                 [] config = "Dac" ->
                      with_high(with_low(c, SLEEP_MCLK), SLEEP_DAC)
                 [] config = "InternalClock" ->
                      with_low(with_high(c, SLEEP_MCLK), SLEEP_DAC)
                 [] config = "DacAndInternalClock" ->
                      with_high(with_high(c, SLEEP_MCLK), SLEEP_DAC)
    IN  write_control(s, ctl, F)

\* faulty variant: the square shapes leave MODE as it was
set_output_waveform_keeps_mode(s, waveform, F) ==
    LET c == s.control
        ctl == CASE waveform = "Sinusoidal" ->
                      with_low(with_low(c, OPBITEN), MODE)
                 [] waveform = "Triangle" ->
                      with_high(with_low(c, OPBITEN), MODE)
                 [] waveform = "SquareMsbOfDac" ->
                      with_high(with_high(c, OPBITEN), DIV2)
                 [] waveform = "SquareMsbOfDacDiv2" ->
                      with_low(with_high(c, OPBITEN), DIV2)
    IN  write_control(s, ctl, F)

\* faulty variant: Sinusoidal and Triangle also clear DIV2
set_output_waveform_clears_div2(s, waveform, F) ==
    LET c == s.control
        ctl == CASE waveform = "Sinusoidal" ->
                      with_low(with_low(with_low(c, OPBITEN), MODE), DIV2)
                 [] waveform = "Triangle" ->
                      with_low(with_high(with_low(c, OPBITEN), MODE), DIV2)
                 [] waveform = "SquareMsbOfDac" ->
                      with_high(with_low(with_high(c, OPBITEN), MODE), DIV2)
                 [] waveform = "SquareMsbOfDacDiv2" ->
                      with_low(with_low(with_high(c, OPBITEN), MODE), DIV2)
    IN  write_control(s, ctl, F)

set_output_waveform(s, waveform, F) ==
    LET c == s.control
        ctl == CASE waveform = "Sinusoidal" ->
                      with_low(with_low(c, OPBITEN), MODE)
                 [] waveform = "Triangle" ->
                      with_high(with_low(c, OPBITEN), MODE)
                 [] waveform = "SquareMsbOfDac" ->
                      with_high(with_low(with_high(c, OPBITEN), MODE), DIV2)
                 [] waveform = "SquareMsbOfDacDiv2" ->
                      with_low(with_low(with_high(c, OPBITEN), MODE), DIV2)
    IN  write_control(s, ctl, F)

(***************************************************************************)
(* Device facade of lib.rs                                                 *)
(***************************************************************************)
lib_disable(s, F) == lib_write_control(s, with_high(s.control, LibRESET), F)

lib_reset(s, F) == lib_disable(s, F)

lib_enable(s, F) == lib_write_control(s, with_low(s.control, LibRESET), F)

(***************************************************************************)
(* The chip's side of the wire: a completed 16-bit transfer whose address  *)
(* tag (D15, D14) is 00 loads the control register.                        *)
(***************************************************************************)
\* hw before any control word has been transferred
NoWord == -1

RECURSIVE Words(_, _)
Words(data, bits) ==
    IF bits = 16
    THEN data
    ELSE IF Len(data) < 2 THEN <<>>
    ELSE <<data[1] * 256 + data[2]>> \o Words(Tail(Tail(data)), bits)

RECURSIVE LatchAll(_, _)
LatchAll(old, ws) ==
    IF ws = <<>> THEN old
    ELSE LatchAll(IF Head(ws) < D14 THEN Head(ws) ELSE old, Tail(ws))

RECURSIVE Chip(_, _)
Chip(old, log) ==
    IF log = <<>> THEN old
    ELSE LET e == Head(log)
             w == IF e.call = "write" /\ e.ok
                  THEN LatchAll(old, Words(e.data, e.bits)) ELSE old
         IN  Chip(w, Tail(log))

(***************************************************************************)
(* Bounds and input samples                                                *)
(***************************************************************************)
MaxFaults == 2      \* longest burst of failing transport calls

\* 28-bit class: 0x3FFF, 0x9AB_CDEF, 2^28 - 1, 2^28
FreqValues  == {16383, 162254319, 268435455, 268435456}
\* 14-bit class: 0, 2^14 - 1, 2^14
HalfValues  == {0, 16383, 16384}
\* 12-bit class: 0, 2^12 - 1, 2^12
PhaseValues == {0, 4095, 4096}

\* fault plans for an operation making at most n transport calls: no fault,
\* or a burst of up to MaxFaults consecutive failing calls
Plans(n) ==
    {{}} \cup {F \in {k..(k + j - 1) : k \in 1..n, j \in 1..MaxFaults} : F \subseteq 1..n}

(***************************************************************************)
(* State machine.  last is the call that has just returned: the operation, *)
(* its arguments, the cached Config before it, its Result, the transport   *)
(* calls it made and whether it was the first call on the handle.  The     *)
(* caller then takes the Result (Return) and the handle is idle again.     *)
(***************************************************************************)
Idle == [op |-> "idle", reg |-> "-", value |-> 0, pre |-> 0,
         res |-> "Ok", log |-> <<>>, first |-> FALSE]

Ready == last.op \in {"new", "idle"}

Begin == [control |-> control, cs |-> cs, log |-> <<>>, res |-> "Ok"]

Commit(op, reg, value, s) ==
    /\ control' = s.control
    /\ cs' = s.cs
    /\ last' = [op |-> op, reg |-> reg, value |-> value, pre |-> control,
                res |-> s.res, log |-> s.log, first |-> (last.op = "new")]
    /\ UNCHANGED kind

\* create (common.rs) / new_ad9833 (lib.rs): no transport call, RESET cached
Init ==
    /\ kind \in {"common", "lib"}
    /\ control = RESET
    /\ cs = "none"
    /\ hw = NoWord
    /\ last = [Idle EXCEPT !.op = "new"]

Return ==
    /\ last.op \notin {"new", "idle", "destroy"}
    /\ last' = Idle
    /\ UNCHANGED <<kind, control, cs>>

\* faulty variant: teardown drives the select line high
DestroyDeasserts ==
    /\ Ready
    /\ last' = [Idle EXCEPT !.op = "destroy", !.pre = control,
                                !.first = (last.op = "new"),
                                !.log = <<Ev("set_high", <<>>, 0, TRUE)>>]
    /\ cs' = "high"
    /\ UNCHANGED <<kind, control>>

Destroy ==
    /\ Ready
    /\ last' = [Idle EXCEPT !.op = "destroy", !.pre = control,
                                !.first = (last.op = "new")]
    /\ UNCHANGED <<kind, control, cs>>

Reset ==
    /\ Ready /\ kind = "common"
    /\ \E F \in Plans(3) : Commit("reset", "-", 0, reset(Begin, F))

Disable ==
    /\ Ready /\ kind = "common"
    /\ \E F \in Plans(3) : Commit("disable", "-", 0, disable(Begin, F))

Enable ==
    /\ Ready /\ kind = "common"
    /\ \E F \in Plans(3) : Commit("enable", "-", 0, enable(Begin, F))

SetFrequency ==
    /\ Ready /\ kind = "common"
    /\ \E r \in FrequencyRegister, v \in FreqValues, F \in Plans(7) :
          Commit("set_frequency", r, v, set_frequency(Begin, r, v, F))

SetFrequencyMsb ==
    /\ Ready /\ kind = "common"
    /\ \E r \in FrequencyRegister, v \in HalfValues, F \in Plans(6) :
          Commit("set_frequency_msb", r, v, set_frequency_msb(Begin, r, v, F))

SetFrequencyLsb ==
    /\ Ready /\ kind = "common"
    /\ \E r \in FrequencyRegister, v \in HalfValues, F \in Plans(6) :
          Commit("set_frequency_lsb", r, v, set_frequency_lsb(Begin, r, v, F))

SelectFrequency ==
    /\ Ready /\ kind = "common"
    /\ \E r \in FrequencyRegister, F \in Plans(3) :
          Commit("select_frequency", r, 0, select_frequency(Begin, r, F))

SetPhase ==
    /\ Ready /\ kind = "common"
    /\ \E r \in PhaseRegister, v \in PhaseValues, F \in Plans(3) :
          Commit("set_phase", r, v, set_phase(Begin, r, v, F))

SelectPhase ==
    /\ Ready /\ kind = "common"
    /\ \E r \in PhaseRegister, F \in Plans(3) :
          Commit("select_phase", r, 0, select_phase(Begin, r, F))

SetPoweredDown ==
    /\ Ready /\ kind = "common"
    /\ \E c \in PoweredDown, F \in Plans(3) :
          Commit("set_powered_down", c, 0, set_powered_down(Begin, c, F))

SetOutputWaveform ==
    /\ Ready /\ kind = "common"
    /\ \E w \in OutputWaveform, F \in Plans(3) :
          Commit("set_output_waveform", w, 0, set_output_waveform(Begin, w, F))

LibReset ==
    /\ Ready /\ kind = "lib"
    /\ \E F \in Plans(3) : Commit("reset", "-", 0, lib_reset(Begin, F))

LibDisable ==
    /\ Ready /\ kind = "lib"
    /\ \E F \in Plans(3) : Commit("disable", "-", 0, lib_disable(Begin, F))

LibEnable ==
    /\ Ready /\ kind = "lib"
    /\ \E F \in Plans(3) : Commit("enable", "-", 0, lib_enable(Begin, F))

\* the driver alone: every facade operation of both handle types
Next ==
    \/ Return /\ UNCHANGED hw
    \/ Destroy /\ UNCHANGED hw
    \/ Reset /\ UNCHANGED hw
    \/ Disable /\ UNCHANGED hw
    \/ Enable /\ UNCHANGED hw
    \/ SetFrequency /\ UNCHANGED hw
    \/ SetFrequencyMsb /\ UNCHANGED hw
    \/ SetFrequencyLsb /\ UNCHANGED hw
    \/ SelectFrequency /\ UNCHANGED hw
    \/ SetPhase /\ UNCHANGED hw
    \/ SelectPhase /\ UNCHANGED hw
    \/ SetPoweredDown /\ UNCHANGED hw
    \/ SetOutputWaveform /\ UNCHANGED hw
    \/ LibReset /\ UNCHANGED hw
    \/ LibDisable /\ UNCHANGED hw
    \/ LibEnable /\ UNCHANGED hw

Spec == Init /\ [][Next]_vars

(***************************************************************************)
(* The driver on the wire: the register-selection and frequency-load part  *)
(* of the facade composed with the chip's control register.                *)
(***************************************************************************)
Latched == hw' = Chip(hw, last'.log)

NextChip ==
    \/ Return /\ Latched
    \/ Destroy /\ Latched
    \/ Reset /\ Latched
    \/ Disable /\ Latched
    \/ Enable /\ Latched
    \/ SetFrequency /\ Latched
    \/ SetFrequencyMsb /\ Latched
    \/ SetFrequencyLsb /\ Latched
    \/ SelectFrequency /\ Latched
    \/ SetPhase /\ Latched
    \/ SelectPhase /\ Latched
    \/ LibReset /\ Latched
    \/ LibDisable /\ Latched
    \/ LibEnable /\ Latched

SpecChip == Init /\ [][NextChip]_vars

(***************************************************************************)
(* The crate-internal protocol layer called directly (common.rs)           *)
(***************************************************************************)
\* Config values the facade produces
ConfigSamples == {0, RESET, B28 + RESET, HLB + RESET, B28 + HLB,
                  FSELECT + PSELECT + RESET, SLEEP_DAC + OPBITEN + DIV2}

\* 2^k and 2^k - 1 for k = 1..28, 0x9AB_CDEF, 0x0FFF_C000, 2^31 - 1
DataSamples == {Pow2(k) : k \in 1..28} \cup {Pow2(k) - 1 : k \in 1..28}
               \cup {162254319, 268419072, 2147483647}

PayloadSamples == {[fmt |-> "U8", data |-> 171],
                   [fmt |-> "U16", data |-> 256],
                   [fmt |-> "U16", data |-> 53247],
                   [fmt |-> "U32", data |-> 305419896]}

WriteControlIfDifferent ==
    /\ Ready /\ kind = "common"
    /\ \E c \in ConfigSamples, F \in Plans(3) :
          Commit("write_control_if_different", "-", c,
                 write_control_if_different(Begin, c, F))

WriteControl ==
    /\ Ready /\ kind = "common"
    /\ \E c \in ConfigSamples, F \in Plans(3) :
          Commit("write_control", "-", c, write_control(Begin, c, F))

Write ==
    /\ Ready /\ kind = "common"
    /\ \E p \in PayloadSamples, F \in Plans(3) :
          Commit("write", p.fmt, p.data, write(Begin, p, F))

WriteData ==
    /\ Ready /\ kind = "common"
    /\ \E r \in FrequencyRegister, v \in DataSamples, F \in Plans(4) :
          Commit("write_data", r, v,
                 write_data(Begin, get_freq_register_bits(r), v, F))

InitProtocol == Init /\ kind = "common"

NextProtocol ==
    \/ Return /\ UNCHANGED hw
    \/ WriteControlIfDifferent /\ UNCHANGED hw
    \/ WriteControl /\ UNCHANGED hw
    \/ Write /\ UNCHANGED hw
    \/ WriteData /\ UNCHANGED hw

SpecProtocol == InitProtocol /\ [][NextProtocol]_vars

(***************************************************************************)
(* Vocabulary of the properties.  Bits are read arithmetically, so that    *)
(* the expected words do not depend on BitAnd / BitOr.                     *)
(***************************************************************************)
HasBit(x, m) == (x \div m) % 2 = 1
SetBit(x, m) == IF HasBit(x, m) THEN x ELSE x + m
ClrBit(x, m) == IF HasBit(x, m) THEN x - m ELSE x

Writes(log)  == SelectSeq(log, LAMBDA e : e.call = "write")
Clean(log)   == \A i \in 1..Len(log) : log[i].ok
Be16(w)      == <<w \div 256, w % 256>>
\* the 16-bit word carried by a bus transfer of one word
WordOf(e)    == Words(e.data, e.bits)[1]
\* a fault-free select-framed transfer of the 16-bit word w, high byte first
Frame(w)     == <<Ev("set_low", <<>>, 0, TRUE), Ev("write", Be16(w), 8, TRUE),
                  Ev("set_high", <<>>, 0, TRUE)>>

ControlOps  == {"enable", "disable", "reset", "select_frequency",
                "select_phase", "set_powered_down", "set_output_waveform"}
FreqLoadOps == {"set_frequency", "set_frequency_msb", "set_frequency_lsb"}

\* the transport calls of the control write of a call (empty when it makes none)
CtlStep(c) ==
    IF c.op \in ControlOps THEN c.log
    ELSE IF /\ c.op \in FreqLoadOps
            /\ Len(c.log) >= 2
            /\ c.log[2].call = "write"
            /\ WordOf(c.log[2]) < D14
         THEN SubSeq(c.log, 1, IF Len(c.log) < 3 THEN Len(c.log) ELSE 3)
         ELSE <<>>

(***************************************************************************)
(* C1: a control write that fails (select-assert, bus transfer or          *)
(* select-deassert) makes the operation return an error and leaves the     *)
(* cached Config as it was before the call; the cache changes only when    *)
(* the control write was a complete fault-free frame carrying the new      *)
(* value.                                                                  *)
(***************************************************************************)
C1_FailedControlWriteKeepsCache ==
    (last.op \in ControlOps \cup FreqLoadOps) =>
        LET step == CtlStep(last)
        IN  /\ (step # <<>> /\ ~Clean(step)) =>
                  (last.res # "Ok" /\ control = last.pre)
            /\ (last.op \in FreqLoadOps /\ Len(last.log) = 1) =>
                  control = last.pre
            /\ (control # last.pre) =>
                  /\ Len(step) = 3 /\ Clean(step)
                  /\ WordOf(step[2]) = control % D14

(***************************************************************************)
(* C2: the cached Config (low 14 bits) equals the payload of the most      *)
(* recent control word whose bus transfer completed, or RESET alone when   *)
(* none has completed.                                                     *)
(***************************************************************************)
C2_CacheIsLastControlWordOnWire ==
    control % D14 = (IF hw = NoWord THEN RESET ELSE hw)


(***************************************************************************)
(* C3: width validation.  set_frequency is rejected with InvalidArgument   *)
(* exactly when v >= 2^28, set_frequency_msb / _lsb exactly when           *)
(* v >= 2^14, set_phase exactly when v >= 2^12; a rejected call makes no   *)
(* transport call at all and leaves the cached Config unchanged.           *)
(***************************************************************************)
C3_WidthValidation ==
    /\ (last.op = "set_frequency") =>
          ((last.res = "InvalidArgument") <=> (last.value >= 268435456))
    /\ (last.op \in {"set_frequency_msb", "set_frequency_lsb"}) =>
          ((last.res = "InvalidArgument") <=> (last.value >= 16384))
    /\ (last.op = "set_phase") =>
          ((last.res = "InvalidArgument") <=> (last.value >= 4096))
    /\ (last.res = "InvalidArgument") =>
          (last.log = <<>> /\ control = last.pre)

C3_Witness ==
    /\ last.op = "set_frequency" /\ last.value = 268435456
    /\ last.res = "InvalidArgument" /\ last.log = <<>>

(***************************************************************************)
(* C4: on a freshly constructed device with a fault-free transport,        *)
(* set_frequency(r, v) with v < 2^28 makes exactly three bus transfers in  *)
(* this order: 0x2100 (B28 | RESET), tag(r) | (v mod 2^14),                *)
(* tag(r) | (v div 2^14), tag(F0) = 0x4000, tag(F1) = 0x8000, each high    *)
(* byte first.                                                             *)
(***************************************************************************)
Tag(r) == IF r = "F0" THEN 16384 ELSE 32768

C4_FreshSetFrequencyWords ==
    (/\ last.op = "set_frequency" /\ last.first
     /\ last.value < 268435456 /\ Clean(last.log)) =>
        LET w == Writes(last.log)
        IN  /\ Len(w) = 3
            /\ w[1].data = <<33, 0>>
            /\ w[2].data = Be16(Tag(last.reg) + (last.value % 16384))
            /\ w[3].data = Be16(Tag(last.reg) + (last.value \div 16384))
            /\ last.res = "Ok"

C4_Witness ==
    /\ last.op = "set_frequency" /\ last.first /\ last.reg = "F0"
    /\ last.value = 162254319 /\ last.res = "Ok"
    /\ Len(Writes(last.log)) = 3

(***************************************************************************)
(* C5: round trip of the 28-bit split.  For v < 2^28, if L and M are the   *)
(* first and second data words write_data transfers, then                  *)
(* (M mod 2^14) * 2^14 + (L mod 2^14) = v.                                 *)
(***************************************************************************)
C5_SplitRoundTrip ==
    (/\ last.op = "write_data" /\ last.value < 268435456
     /\ Len(Writes(last.log)) = 2) =>
        LET L == WordOf(Writes(last.log)[1])
            M == WordOf(Writes(last.log)[2])
        IN  (M % 16384) * 16384 + (L % 16384) = last.value

C5_Witness ==
    /\ last.op = "write_data" /\ last.value = 162254319
    /\ last.res = "Ok" /\ Len(Writes(last.log)) = 2

(***************************************************************************)
(* C6: redundant-write suppression.  write_control_if_different(c) with c  *)
(* equal to the cached Config makes no transport call, returns Ok and      *)
(* leaves the cache unchanged; when c differs and the transport does not   *)
(* fail, the call makes one bus transfer and the same call issued again    *)
(* makes none: one transfer in total.                                      *)
(***************************************************************************)
C6_RedundantWriteSuppressed ==
    (last.op = "write_control_if_different") =>
        /\ (last.value = last.pre) =>
              (last.log = <<>> /\ last.res = "Ok" /\ control = last.pre)
        /\ (last.value # last.pre /\ Clean(last.log)) =>
              LET again == write_control_if_different(Begin, last.value, {})
              IN  /\ last.res = "Ok"
                  /\ Len(Writes(last.log)) + Len(Writes(again.log)) = 1
                  /\ again.log = <<>> /\ again.res = "Ok"

C6_Witness ==
    /\ last.op = "write_control_if_different"
    /\ last.value = last.pre /\ last.log = <<>> /\ last.res = "Ok"

(***************************************************************************)
(* C7: reset() and disable() are equivalent.  Every outcome of reset       *)
(* (transport calls with their words and faults, Result, cached Config     *)
(* afterwards) is the outcome of disable from the same cached Config under *)
(* the same fault plan, and conversely; the word is the cached Config with *)
(* RESET set, 0x0100 on a freshly constructed device.                      *)
(***************************************************************************)
From(c) == [control |-> c, cs |-> "none", log |-> <<>>, res |-> "Ok"]

SameOutcome(s) ==
    s.log = last.log /\ s.res = last.res /\ s.control = control

C7_ResetIsDisable ==
    /\ (last.op = "reset" /\ kind = "common") =>
          \E F \in Plans(3) :
              /\ SameOutcome(disable(From(last.pre), F))
              /\ SameOutcome(reset(From(last.pre), F))
    /\ (last.op = "disable" /\ kind = "common") =>
          \E F \in Plans(3) :
              /\ SameOutcome(reset(From(last.pre), F))
              /\ SameOutcome(disable(From(last.pre), F))
    /\ (last.op = "reset" /\ kind = "lib") =>
          \E F \in Plans(3) :
              /\ SameOutcome(lib_disable(From(last.pre), F))
              /\ SameOutcome(lib_reset(From(last.pre), F))
    /\ (last.op = "disable" /\ kind = "lib") =>
          \E F \in Plans(3) :
              /\ SameOutcome(lib_reset(From(last.pre), F))
              /\ SameOutcome(lib_disable(From(last.pre), F))
    /\ (last.op \in {"reset", "disable"}) =>
          \A i \in 1..Len(last.log) :
              (last.log[i].call = "write") =>
                  /\ WordOf(last.log[i]) = SetBit(last.pre, 256) % 16384
                  /\ last.first => WordOf(last.log[i]) = 256

C7_Witness ==
    /\ last.op = "reset" /\ last.first /\ last.res = "Ok"
    /\ Len(Writes(last.log)) = 1 /\ WordOf(Writes(last.log)[1]) = 256

(***************************************************************************)
(* C8: select_frequency(r) and select_phase(r) never suppress the write,   *)
(* also when the selected bit already has the requested value: the call    *)
(* asserts the select line and, once that succeeded, makes exactly one bus *)
(* transfer, of the cached Config with FSELECT (resp. PSELECT) set for     *)
(* F1 / P1 and cleared for F0 / P0 and every other bit unchanged; without  *)
(* a transport fault the call is that one frame and the cache becomes the  *)
(* word.  On a fresh device select_frequency(F1) transfers 0x0900 and      *)
(* select_frequency(F0) transfers 0x0100.                                  *)
(***************************************************************************)
OneControlWord(w) ==
    /\ Len(last.log) >= 1 /\ last.log[1].call = "set_low"
    /\ Len(Writes(last.log)) = (IF last.log[1].ok THEN 1 ELSE 0)
    /\ \A i \in 1..Len(last.log) :
          (last.log[i].call = "write") => last.log[i].data = Be16(w % 16384)
    /\ Clean(last.log) =>
          (last.log = Frame(w % 16384) /\ control = w /\ last.res = "Ok")

C8_SelectWritesUnconditionally ==
    /\ (last.op = "select_frequency") =>
          LET w == IF last.reg = "F1" THEN SetBit(last.pre, 2048)
                                      ELSE ClrBit(last.pre, 2048)
          IN  /\ OneControlWord(w)
              /\ (last.first /\ last.reg = "F1") => w = 2304
              /\ (last.first /\ last.reg = "F0") => w = 256
    /\ (last.op = "select_phase") =>
          LET w == IF last.reg = "P1" THEN SetBit(last.pre, 1024)
                                      ELSE ClrBit(last.pre, 1024)
          IN  OneControlWord(w)

C8_Witness ==
    /\ last.op = "select_frequency" /\ last.reg = "F1"
    /\ HasBit(last.pre, 2048)
    /\ last.log = Frame(last.pre % 16384) /\ last.res = "Ok"

(***************************************************************************)
(* C9: enable() takes the unconditional write path.  Every call asserts    *)
(* the select line and, once that succeeded, makes exactly one bus         *)
(* transfer, of the cached Config with RESET cleared (0x0000 on a fresh    *)
(* device); after an enable() on a fault-free transport a second enable()  *)
(* makes one more transfer: two transfers for two calls.                   *)
(***************************************************************************)
C9_EnableUnconditional ==
    (last.op = "enable") =>
        LET w == ClrBit(last.pre, 256)
            again == IF kind = "common" THEN enable(Begin, {})
                                        ELSE lib_enable(Begin, {})
        IN  /\ Len(last.log) >= 1 /\ last.log[1].call = "set_low"
            /\ Len(Writes(last.log)) = (IF last.log[1].ok THEN 1 ELSE 0)
            /\ \A i \in 1..Len(last.log) :
                  (last.log[i].call = "write") =>
                      WordOf(last.log[i]) = w % 16384
            /\ last.first => w = 0
            /\ Clean(last.log) =>
                  /\ last.res = "Ok" /\ control = w
                  /\ Len(Writes(last.log)) + Len(Writes(again.log)) = 2
                  /\ WordOf(Writes(again.log)[1]) = w % 16384

C9_Witness ==
    /\ last.op = "enable" /\ kind = "common" /\ ~HasBit(last.pre, 256)
    /\ last.log = Frame(last.pre % 16384) /\ last.res = "Ok"

(***************************************************************************)
(* C10: for v <= 4095 set_phase(r, v) asserts the select line and, once    *)
(* that succeeded, makes exactly one bus transfer, of 0xC000 | v for P0    *)
(* and 0xE000 | v for P1 (one frame when the transport does not fail); it  *)
(* never transfers a control word and never changes the cached Config;     *)
(* for v = 4096 it fails with InvalidArgument.                             *)
(***************************************************************************)
C10_SetPhaseWord ==
    (last.op = "set_phase") =>
        LET w == (IF last.reg = "P0" THEN 49152 ELSE 57344) + last.value
        IN  /\ control = last.pre
            /\ \A i \in 1..Len(last.log) :
                  (last.log[i].call = "write") => WordOf(last.log[i]) >= 16384
            /\ (last.value <= 4095) =>
                  /\ Len(last.log) >= 1 /\ last.log[1].call = "set_low"
                  /\ Len(Writes(last.log)) = (IF last.log[1].ok THEN 1 ELSE 0)
                  /\ \A i \in 1..Len(last.log) :
                        (last.log[i].call = "write") =>
                            last.log[i].data = Be16(w)
                  /\ Clean(last.log) =>
                        (last.log = Frame(w) /\ last.res = "Ok")
            /\ (last.value = 4096) =>
                  (last.res = "InvalidArgument" /\ last.log = <<>>)

C10_Witness ==
    /\ last.op = "set_phase" /\ last.reg = "P1" /\ last.value = 4095
    /\ last.res = "Ok" /\ last.log = Frame(61439)

(***************************************************************************)
(* C11: constructing a device makes no transport call and caches RESET     *)
(* alone (0x0100); destroy makes no transport call and changes nothing, so *)
(* construct followed by destroy leaves an empty trace and a select line   *)
(* that was never driven.                                                  *)
(***************************************************************************)
C11_ConstructDestroySilent ==
    /\ (last.op = "new") =>
          (last.log = <<>> /\ control = 256 /\ cs = "none")
    /\ (last.op = "destroy") =>
          /\ last.log = <<>> /\ control = last.pre
          /\ last.first => (control = 256 /\ cs = "none")

C11_Witness ==
    /\ last.op = "destroy" /\ last.first
    /\ last.log = <<>> /\ control = 256 /\ cs = "none"

(***************************************************************************)
(* C12: a transport failure aborts the rest of the operation.  Nothing     *)
(* follows a failed select-assert; in a frequency load no data word is     *)
(* transferred after a failed control write; in the 28-bit load nothing    *)
(* is transferred after a failed transfer of the LSB word.                 *)
(***************************************************************************)
IsData(e) == e.call = "write" /\ WordOf(e) >= 16384

C12_FaultAborts ==
    /\ \A i \in 1..Len(last.log) :
          (last.log[i].call = "set_low" /\ ~last.log[i].ok) =>
              i = Len(last.log)
    /\ (last.op \in FreqLoadOps) =>
          LET step == CtlStep(last)
          IN  (step # <<>> /\ ~Clean(step)) =>
                  /\ last.log = step
                  /\ \A i \in 1..Len(last.log) : ~IsData(last.log[i])
                  /\ last.res # "Ok"
    /\ (last.op \in {"set_frequency", "write_data"}) =>
          \A i \in 1..Len(last.log) :
              (IsData(last.log[i]) /\ ~last.log[i].ok) =>
                  (i = Len(last.log) /\ last.res = "Spi")

C12_Witness ==
    /\ last.op = "set_frequency" /\ last.res = "Spi"
    /\ Len(last.log) = 5
    /\ IsData(last.log[5]) /\ ~last.log[5].ok
    /\ Len(Writes(last.log)) = 2

(***************************************************************************)
(* C13: the error an operation returns is the first transport fault that   *)
(* occurred during it: the bus fault (Spi) when a bus transfer is the      *)
(* first call to fail, whatever the following select-deassert does; the    *)
(* select-pin fault (CSPinError) when a select-line call is the first.     *)
(***************************************************************************)
FirstFault(log) ==
    LET bad == {i \in 1..Len(log) : ~log[i].ok}
    IN  IF bad = {} THEN 0 ELSE CHOOSE i \in bad : \A j \in bad : i <= j

C13_FirstFaultReturned ==
    (last.op \notin {"new", "idle", "destroy"}) =>
        LET i == FirstFault(last.log)
        IN  IF i = 0 THEN last.res \in {"Ok", "InvalidArgument"}
            ELSE last.res = (IF last.log[i].call = "write" THEN "Spi"
                                                          ELSE "CSPinError")

(***************************************************************************)
(* C14: the select frame is closed on every exit.  When an operation       *)
(* returns success or a bus fault and none of its select-line calls        *)
(* failed, the select line is deasserted, its select-line calls alternate  *)
(* assert, deassert, ... and each bus transfer lies inside a pair.         *)
(***************************************************************************)
PinCalls(log) == SelectSeq(log, LAMBDA e : e.call # "write")

C14_FrameClosedOnExit ==
    (/\ last.op \notin {"new", "idle", "destroy"}
     /\ last.res \in {"Ok", "Spi"}
     /\ Clean(PinCalls(last.log))) =>
        LET pins == PinCalls(last.log)
        IN  /\ cs = "high"
            /\ Len(pins) % 2 = 0
            /\ \A i \in 1..Len(pins) :
                  pins[i].call = (IF i % 2 = 1 THEN "set_low" ELSE "set_high")
            /\ \A i \in 1..Len(last.log) :
                  (last.log[i].call = "write") =>
                      /\ i > 1
                      /\ \E j \in 1..(i - 1) :
                            /\ last.log[j].call = "set_low"
                            /\ \A k \in (j + 1)..(i - 1) :
                                  last.log[k].call = "write"

(***************************************************************************)
(* C15: each word set_frequency transfers has its own select frame: on a   *)
(* fresh device with a fault-free transport the calls are assert, control  *)
(* word, deassert, assert, LSB word, deassert, assert, MSB word, deassert. *)
(***************************************************************************)
C15_EachWordOwnFrame ==
    (/\ last.op = "set_frequency" /\ last.first
     /\ last.value < 268435456 /\ Clean(last.log)) =>
        last.log = Frame(8448)
                   \o Frame(Tag(last.reg) + (last.value % 16384))
                   \o Frame(Tag(last.reg) + (last.value \div 16384))

(***************************************************************************)
(* C16: mode-switch suppression.  A frequency load transfers a control     *)
(* word, before its data word(s), exactly when the cached mode bits differ *)
(* from the mode it requires (set_frequency: B28 = 1; set_frequency_msb:   *)
(* B28 = 0, HLB = 1; set_frequency_lsb: B28 = 0, HLB = 0) and only its     *)
(* data word(s) otherwise; when it succeeds the cache has the required     *)
(* mode bits and every other bit as before.  A second consecutive          *)
(* set_frequency makes exactly two transfers, set_frequency_lsb on a       *)
(* fresh device exactly one.                                               *)
(***************************************************************************)
Required(op, pre) ==
    CASE op = "set_frequency"     -> SetBit(pre, 8192)
      [] op = "set_frequency_msb" -> SetBit(ClrBit(pre, 8192), 4096)
      [] op = "set_frequency_lsb" -> ClrBit(ClrBit(pre, 8192), 4096)

C16_ModeSwitchSuppressed ==
    (last.op \in FreqLoadOps /\ last.res # "InvalidArgument") =>
        LET req    == Required(last.op, last.pre)
            w      == Writes(last.log)
            nData  == IF last.op = "set_frequency" THEN 2 ELSE 1
        IN  /\ (req = last.pre) =>
                  /\ \A i \in 1..Len(w) : WordOf(w[i]) >= 16384
                  /\ control = last.pre
                  /\ Clean(last.log) => Len(w) = nData
            /\ (req # last.pre) =>
                  /\ Len(w) >= 1 => w[1].data = Be16(req % 16384)
                  /\ \A i \in 2..Len(w) : WordOf(w[i]) >= 16384
                  /\ Clean(last.log) => Len(w) = 1 + nData
            /\ (last.res = "Ok") => control = req
            /\ Clean(last.log) => last.res = "Ok"
            /\ (last.op = "set_frequency" /\ Clean(last.log)) =>
                  Len(Writes(set_frequency(Begin, last.reg, last.value, {}).log)) = 2
            /\ (last.op = "set_frequency_lsb" /\ last.first /\ Clean(last.log)) =>
                  Len(w) = 1

C16_Witness ==
    /\ last.op = "set_frequency_lsb" /\ last.first /\ last.value = 16383
    /\ last.res = "Ok" /\ Len(Writes(last.log)) = 1

(***************************************************************************)
(* C17: set_output_waveform(shape) writes unconditionally one control      *)
(* word, the cached Config with Sinusoidal: OPBITEN = 0, MODE = 0;         *)
(* Triangle: OPBITEN = 0, MODE = 1; SquareMsbOfDac: OPBITEN = 1, MODE = 0, *)
(* DIV2 = 1; SquareMsbOfDacDiv2: OPBITEN = 1, MODE = 0, DIV2 = 0; every    *)
(* other bit is unchanged and DIV2 is unchanged for Sinusoidal, Triangle.  *)
(***************************************************************************)
WireBits == {Pow2(k) : k \in 0..13}

\* the call never suppresses its control write; P(x) holds of the word x it
\* puts on the wire and of the Config it caches on success
WritesControlWord(P(_)) ==
    /\ Len(last.log) >= 1 /\ last.log[1].call = "set_low"
    /\ Len(Writes(last.log)) = (IF last.log[1].ok THEN 1 ELSE 0)
    /\ \A i \in 1..Len(last.log) :
          (last.log[i].call = "write") => P(WordOf(last.log[i]))
    /\ Clean(last.log) =>
          /\ last.log = Frame(control % 16384) /\ last.res = "Ok"
          /\ P(control) /\ control \div 16384 = last.pre \div 16384

WaveBits(x, pre, shape) ==
    /\ \A m \in WireBits \ {32, 8, 2} : HasBit(x, m) = HasBit(pre, m)
    /\ HasBit(x, 32) = (shape \in {"SquareMsbOfDac", "SquareMsbOfDacDiv2"})
    /\ HasBit(x, 2) = (shape = "Triangle")
    /\ HasBit(x, 8) = (CASE shape = "SquareMsbOfDac" -> TRUE
                         [] shape = "SquareMsbOfDacDiv2" -> FALSE
                         [] OTHER -> HasBit(pre, 8))

C17_WaveformTable ==
    (last.op = "set_output_waveform") =>
        WritesControlWord(LAMBDA x : WaveBits(x, last.pre, last.reg))

C17_Witness ==
    /\ last.op = "set_output_waveform" /\ last.reg = "Triangle"
    /\ HasBit(last.pre, 32) /\ HasBit(last.pre, 8) /\ last.res = "Ok"
    /\ ~HasBit(control, 32) /\ HasBit(control, 2) /\ HasBit(control, 8)

(***************************************************************************)
(* C18: set_powered_down(mode) writes unconditionally one control word in  *)
(* which (SLEEP_MCLK, SLEEP_DAC) is (0,0) for Nothing, (0,1) for Dac,      *)
(* (1,0) for InternalClock, (1,1) for DacAndInternalClock, whatever they   *)
(* were before, and every other bit of the cached Config is unchanged.     *)
(***************************************************************************)
SleepBits(x, pre, mode) ==
    /\ \A m \in WireBits \ {128, 64} : HasBit(x, m) = HasBit(pre, m)
    /\ HasBit(x, 128) = (mode \in {"InternalClock", "DacAndInternalClock"})
    /\ HasBit(x, 64) = (mode \in {"Dac", "DacAndInternalClock"})

C18_PoweredDownFrame ==
    (last.op = "set_powered_down") =>
        WritesControlWord(LAMBDA x : SleepBits(x, last.pre, last.reg))

C18_Witness ==
    /\ last.op = "set_powered_down" /\ last.reg = "Dac"
    /\ HasBit(last.pre, 128) /\ ~HasBit(last.pre, 64) /\ last.res = "Ok"
    /\ ~HasBit(control, 128) /\ HasBit(control, 64)

(***************************************************************************)
(* C19: in every reachable state bits 15, 14, 9 (PIN_SW), 4 (SIGN_PIB), 2  *)
(* and 0 of the cached Config are zero, and every control word placed on   *)
(* the wire has its top two bits 00 and PIN_SW clear.                      *)
(***************************************************************************)
ReservedBits == {32768, 16384, 512, 16, 4, 1}

\* the role of the i-th transport call of the last call, from the operation
\* that made it and its place in the operation, never from the bits it carries
Role(i) ==
    IF last.log[i].call # "write" THEN "pin"
    ELSE IF last.op \in ControlOps THEN "control"
    ELSE IF last.op \in FreqLoadOps
         THEN IF i = 2 /\ Required(last.op, last.pre) # last.pre
              THEN "control" ELSE "frequency"
    ELSE IF last.op = "set_phase" THEN "phase"
    ELSE "unknown"

C19_ReservedBitsClear ==
    /\ \A m \in ReservedBits : ~HasBit(control, m)
    /\ \A i \in 1..Len(last.log) :
          (Role(i) = "control") =>
              /\ WordOf(last.log[i]) < 16384
              /\ ~HasBit(WordOf(last.log[i]), 512)

C19_Witness ==
    /\ last.op = "select_phase" /\ last.reg = "P1"
    /\ HasBit(last.pre, 8192) /\ HasBit(last.pre, 256) /\ HasBit(last.pre, 32)
    /\ Len(last.log) >= 2 /\ Role(2) = "control"
    /\ WordOf(last.log[2]) = last.pre + 1024
    /\ last.res = "Ok" /\ control = last.pre + 1024

(***************************************************************************)
(* C20: over any sequence of operations every word on the wire has top two *)
(* bits 00 iff it is a control word, 01 iff it is a frequency data word    *)
(* for F0, 10 iff it is a frequency data word for F1, and 11 iff it is a   *)
(* phase word, whose bit 13 is then 0 for P0 and 1 for P1.                 *)
(***************************************************************************)
C20_TagsNeverCorrupted ==
    \A i \in 1..Len(last.log) :
        (last.log[i].call = "write") =>
            LET x == WordOf(last.log[i])
                t == x \div 16384
            IN  /\ Role(i) \in {"control", "frequency", "phase"}
                /\ (t = 0) <=> (Role(i) = "control")
                /\ (t = 1) <=> (Role(i) = "frequency" /\ last.reg = "F0")
                /\ (t = 2) <=> (Role(i) = "frequency" /\ last.reg = "F1")
                /\ (t = 3) <=> (Role(i) = "phase")
                /\ (t = 3) => (HasBit(x, 8192) <=> (last.reg = "P1"))

\* a full-scale half-word for F1 leaves the tag 10 and fills the 14 payload bits
C20_Witness ==
    /\ last.op = "set_frequency_msb" /\ last.reg = "F1" /\ last.value = 16383
    /\ last.res = "Ok" /\ Len(Writes(last.log)) >= 1
    /\ WordOf(Writes(last.log)[Len(Writes(last.log))]) = 32768 + 16383

(***************************************************************************)
(* C21: in every reachable state the cached Config never has OPBITEN and   *)
(* MODE set at the same time, and no control word with both bits set is    *)
(* ever transmitted, whatever the order of set_output_waveform and the     *)
(* other facade operations.                                                *)
(***************************************************************************)
SquareTriangle(x) == HasBit(x, 32) /\ HasBit(x, 2)

C21_NeverSquareAndTriangle ==
    /\ ~SquareTriangle(control)
    /\ \A i \in 1..Len(last.log) :
          (Role(i) = "control") => ~SquareTriangle(WordOf(last.log[i]))

\* a square shape is selected while the cache holds Triangle: MODE is cleared
C21_Witness ==
    /\ last.op = "set_output_waveform"
    /\ last.reg \in {"SquareMsbOfDac", "SquareMsbOfDacDiv2"}
    /\ HasBit(last.pre, 2) /\ ~HasBit(last.pre, 32)
    /\ last.res = "Ok" /\ last.log = Frame(control)
    /\ HasBit(control, 32) /\ ~HasBit(control, 2)

====
